---- MODULE Spec2Model ----
(***************************************************************************)
(* pointer-cache: an in-process key/value cache bounded by item count and  *)
(* by estimated memory, with per-entry expiration and a FIFO key manager   *)
(* that names the eviction victim.                                         *)
(*                                                                         *)
(* The store is modelled as the three pieces of state every mutation       *)
(* touches: the entry map (items), the memory counter (memUsage) and the   *)
(* key manager's queue (array).  Every exported method of cache is one     *)
(* action; the unexported helpers (set, delete, get, getItem, ...) are     *)
(* operators over a store record [items, memUsage, array].                 *)
(***************************************************************************)
EXTENDS Integers, Sequences, FiniteSets, TLC

VARIABLES
    items,        \* cache.items: key -> Item, a function whose domain is the stored keys
    memUsage,     \* cache.memUsage
    array,        \* queue.array of the key manager New installs
    option,       \* cache.option, fixed at construction
    now,          \* the clock read by time.Now()
    ret,          \* the last call: its name, its key, its error and whether it found the key
    track,        \* whether this exploration keeps the insertion history
    insertOrder,  \* history: the stored keys, oldest first, by first and by latest write
    qsize,        \* queue.size of the key manager: 0 is unbounded
    keyManager,   \* cache.keyManager: the queue, or the noop manager
    heap,         \* the records a value handed to DeepSize can reach: address -> fields
    root,         \* the value handed to DeepSize
    estimate,     \* what the last DeepSize call returned
    mu,           \* cache.mu, as the calling goroutine sees it
    onEvicted,    \* cache.onEvicted
    frames,       \* the calls of the calling goroutine that have not returned, outermost first
    called,       \* history: the callback invocations since the last call began
    gone,         \* history: the entries that left the map since the last call began
    built,        \* what New returned: nothing yet, a store, or an error
    janitor,      \* where the janitor goroutine is
    stop,         \* janitor.stop, an unbuffered channel
    ticker,       \* the ticks waiting in ticker.C, which buffers one
    passes,       \* history: ticks the janitor received and DeleteExpired passes it made
    janitorNow,   \* the time the DeleteExpired call of the janitor read before it locks
    goroutines    \* the goroutines that call the store side by side, and where each is

queueVars == <<qsize, keyManager>>

estimatorVars == <<heap, root, estimate>>

callbackVars == <<mu, onEvicted, frames, called, gone>>

janitorVars == <<built, janitor, stop, ticker, passes, janitorNow>>

goroutineVars == <<goroutines>>

vars == <<items, memUsage, array, option, now, ret, track, insertOrder,
          qsize, keyManager, heap, root, estimate, mu, onEvicted, frames, called, gone,
          built, janitor, stop, ticker, passes, janitorNow, goroutines>>

-----------------------------------------------------------------------------
(* Bounds of the exploration *)

MaxTime == 3        \* the clock runs from 1 to MaxTime
MaxQueue == 3       \* inserts are explored while the queue holds fewer keys
MaxTTL == 1         \* the largest positive ttl passed to an insert
MaxHistoryQueue == 5 \* the queue bound of the exploration that keeps the insertion history
MaxTracked == 3     \* the queue alone is explored while it tracks fewer keys
BoundedQueueSize == 2 \* the size given to NewQueue when the queue alone is bounded
MaxPasses == 2      \* the ticks the janitor is explored to receive
MaxNodes == 2       \* the records a value handed to DeepSize can reach

(* Program constants *)

NoExpiration == -1
ZeroExpiration == 0
PtrSize == 8
StringHeader == 16  \* reflect size of a string header on a 64-bit build
WordSize == 8       \* reflect size of int and int64 on a 64-bit build
queueSize == 0      \* the size New passes to NewKeyManager: 0, an unbounded queue

-----------------------------------------------------------------------------
(* Inputs *)

Keys == {"", "a"}

IntVal(i) == [kind |-> "int", i |-> i, n |-> 1]
ArrVal(n) == [kind |-> "array", i |-> 0, n |-> n]

\* int 1, int 2 and [8]int64{}
Values == {IntVal(1), IntVal(2), ArrVal(8)}

TTLs == {NoExpiration, ZeroExpiration} \cup (1..MaxTTL)

\* the Option records New is given: no capacity and a memory limit that holds one
\* small entry, or capacity 1 and the memory limit of the tests with no default ttl
Options ==
    { [Capacity |-> 0, MemoryLimit |-> 64, DefaultExpiration |-> 1],
      [Capacity |-> 1, MemoryLimit |-> 128, DefaultExpiration |-> NoExpiration] }

NilErr == "nil"
ErrEmptyQueue == "queue is empty"
ErrInvalidKey == "invalid key"
ErrExists == "already exists"
ErrNotFound == "doesn't exist"
NoReturn == "no return"     \* the call spins in set's eviction loop and never returns

NoValue == [kind |-> "nil", i |-> 0, n |-> 0]

NotEstimated == -1          \* DeepSize has not been called

NilFunc == [op |-> "nil", key |-> ""]   \* a nil onEvicted

-----------------------------------------------------------------------------
(* Memory estimator, on the value shapes the store is driven with *)

\* valueSize: an int or an array of int64 is its static layout size
valueSize(v) ==
    IF v.kind = "int" THEN WordSize
    ELSE IF v.kind = "array" THEN WordSize * v.n
    ELSE 0

\* valueSize of a string: header plus length
stringSize(k) == StringHeader + Len(k)

DeepSize(v) == valueSize(v)

calculateItemSize(k, v) == stringSize(k) + DeepSize(v) + PtrSize

addMemUsage(usage, mem) == usage + mem

deductMemUsage(usage, mem) ==
    LET left == usage - mem
    IN  IF left < 0 THEN 0 ELSE left

-----------------------------------------------------------------------------
(* Key manager: the FIFO queue *)

Range(q) == {q[i] : i \in 1..Len(q)}

\* remove: drop the first element equal to item
remove(l, item) ==
    IF \E i \in 1..Len(l) : l[i] = item
    THEN LET i == CHOOSE j \in 1..Len(l) :
                      /\ l[j] = item
                      /\ \A h \in 1..(j - 1) : l[h] # item
         IN  SubSeq(l, 1, i - 1) \o SubSeq(l, i + 1, Len(l))
    ELSE l

\* keyManager.Delete: queue.Delete, or noop.Delete, which does nothing
queueDelete(q, key) == IF keyManager = "noop" THEN q ELSE remove(q, key)

\* keyManager.Add: queue.Add, or noop.Add, which keeps nothing
queueAdd(q, key) ==
    IF keyManager = "noop" THEN q
    ELSE IF qsize # 0 /\ Len(q) >= qsize THEN q ELSE Append(q, key)

\* a Peek that answers the newest key
Peek_newest(q) ==
    IF Len(q) = 0
    THEN [res |-> "", err |-> ErrEmptyQueue]
    ELSE [res |-> q[Len(q)], err |-> NilErr]

\* keyManager.Peek: queue.Peek, or noop.Peek, which answers "" and no error
Peek(q) ==
    IF keyManager = "noop" THEN [res |-> "", err |-> NilErr]
    ELSE IF Len(q) = 0
    THEN [res |-> "", err |-> ErrEmptyQueue]
    ELSE [res |-> q[1], err |-> NilErr]

-----------------------------------------------------------------------------
(* Store helpers *)

Store(i, m, q) == [items |-> i, memUsage |-> m, array |-> q]

Size(s) == Cardinality(DOMAIN s.items)

Alloc(s) == s.memUsage

\* an expiry test that is off by one instant: expired at the expiration instant itself
Expired_atInstant(item, t) == item.Expiration > 0 /\ t >= item.Expiration

\* the inlined expiry test of get, getItem, Get and GetWithExpiration
Expired(item, t) == item.Expiration > 0 /\ t > item.Expiration

\* get / getItem / Get: the entry and whether it is present and not expired
getItem(its, k, t) ==
    IF k \notin DOMAIN its THEN [found |-> FALSE, Object |-> NoValue, Expiration |-> 0]
    ELSE IF Expired(its[k], t) THEN [found |-> FALSE, Object |-> NoValue, Expiration |-> 0]
    ELSE [found |-> TRUE, Object |-> its[k].Object, Expiration |-> its[k].Expiration]

\* cache.delete
delete(s, k) ==
    IF k \in DOMAIN s.items
    THEN Store([x \in DOMAIN s.items \ {k} |-> s.items[x]],
               deductMemUsage(s.memUsage, s.items[k].Mem),
               queueDelete(s.array, k))
    ELSE s

\* the expiration instant set computes from its ttl argument
expiration(d, t) ==
    LET d1 == IF d = ZeroExpiration THEN option.DefaultExpiration ELSE d
    IN  IF d1 > 0 THEN t + d1 ELSE 0

\* the capacity check of set: at capacity, delete the key the policy peeks
capacityCheck(s) ==
    IF option.Capacity > 0 /\ Size(s) >= option.Capacity
    THEN LET pk == Peek(s.array)
         IN  IF pk.err # NilErr THEN [s |-> s, err |-> pk.err]
             ELSE [s |-> delete(s, pk.res), err |-> NilErr]
    ELSE [s |-> s, err |-> NilErr]

\* the memory loop of set
RECURSIVE evictLoop(_, _, _)
evictLoop(s, requireSpace, t) ==
    IF requireSpace <= 0 THEN [s |-> s, err |-> NilErr]
    ELSE LET pk == Peek(s.array)
         IN  IF pk.err # NilErr THEN [s |-> s, err |-> pk.err]
             ELSE IF pk.res = "" THEN [s |-> s, err |-> ErrInvalidKey]
             ELSE IF ~getItem(s.items, pk.res, t).found
                  THEN [s |-> s, err |-> NoReturn]   \* continue with nothing changed
             ELSE evictLoop(delete(s, pk.res), requireSpace - s.items[pk.res].Mem, t)

memoryCheck(s, size, t) ==
    IF option.MemoryLimit > 0 /\ (s.memUsage + size) >= option.MemoryLimit
    THEN evictLoop(s, (s.memUsage + size) - option.MemoryLimit, t)
    ELSE [s |-> s, err |-> NilErr]

\* cache.set
set(s, k, v, d, t) ==
    LET e == expiration(d, t)
        size == calculateItemSize(k, v)
        c == capacityCheck(s)
        m == IF c.err # NilErr THEN c ELSE memoryCheck(c.s, size, t)
    IN  IF m.err # NilErr THEN m
        ELSE [s |-> Store([x \in DOMAIN m.s.items \cup {k} |->
                              IF x = k
                              THEN [Object |-> v, Expiration |-> e, Mem |-> size]
                              ELSE m.s.items[x]],
                          addMemUsage(m.s.memUsage, size),
                          queueAdd(m.s.array, k)),
              err |-> NilErr]

-----------------------------------------------------------------------------
(* History kept beside the store *)

RECURSIVE keep(_, _)
keep(l, S) ==
    IF l = <<>> THEN <<>>
    ELSE IF Head(l) \in S THEN <<Head(l)>> \o keep(Tail(l), S)
    ELSE keep(Tail(l), S)

NoHistory == [first |-> <<>>, last |-> <<>>]

\* after a call: keys that left the map leave both orders. In the order by latest
\* write, the key a successful insert wrote becomes the newest. In the order by
\* first write, a key written while absent and a key written by Replace become the
\* newest, and a key overwritten by Set or Add keeps its place.
orderAfter(its, op, err, k) ==
    IF ~track THEN NoHistory
    ELSE IF err = NilErr /\ op \in {"Set", "SetDefault", "Add", "Replace"}
    THEN [last  |-> Append(keep(insertOrder.last, DOMAIN its \ {k}), k),
          first |-> IF op = "Replace" \/ k \notin DOMAIN items
                    THEN Append(keep(insertOrder.first, DOMAIN its \ {k}), k)
                    ELSE keep(insertOrder.first, DOMAIN its)]
    ELSE [last  |-> keep(insertOrder.last, DOMAIN its),
          first |-> keep(insertOrder.first, DOMAIN its)]

-----------------------------------------------------------------------------
(* Construction *)

InsertOps == {"Set", "SetDefault", "Add", "Replace"}

\* the calling goroutine is free to make a call: its last call returned
Running == ret.err # NoReturn /\ frames = <<>>

Ret(op, k, err, found) == [op |-> op, key |-> k, err |-> err, found |-> found]

\* New(option, nil): an empty map, a zero counter, an empty queue
New ==
    /\ option \in Options
    /\ items = <<>>
    /\ memUsage = 0
    /\ array = <<>>
    /\ now = 1
    /\ ret = Ret("New", "", NilErr, FALSE)
    /\ insertOrder = NoHistory
    /\ qsize = queueSize
    /\ keyManager = "queue"

\* no value is being estimated
NoEstimator == heap = <<>> /\ root = NoValue /\ estimate = NotEstimated

\* newCache leaves onEvicted nil and the mutex unlocked
NoCallback ==
    /\ mu = "unlocked"
    /\ onEvicted = NilFunc
    /\ frames = <<>>
    /\ called = <<>>
    /\ gone = <<>>

NoPasses == [received |-> 0, swept |-> 0]

\* New with no CleanupInterval starts no janitor
NoJanitor ==
    /\ built = "ok"
    /\ janitor = "none"
    /\ stop = "idle"
    /\ ticker = 0
    /\ passes = NoPasses
    /\ janitorNow = 0

\* one goroutine calls the store, one call after the other
NoGoroutines == goroutines = <<>>

Init == New /\ track = FALSE /\ NoEstimator /\ NoCallback /\ NoJanitor /\ NoGoroutines

QueueBound == IF track THEN MaxHistoryQueue ELSE MaxQueue

Cur == Store(items, memUsage, array)

\* a set as a sequence, in some fixed order
RECURSIVE SetToSeq(_)
SetToSeq(S) ==
    IF S = {} THEN <<>>
    ELSE LET x == CHOOSE y \in S : TRUE
         IN  <<x>> \o SetToSeq(S \ {x})

\* the entries of before whose keys are not in after, while a callback is registered
leftOf(before, after) ==
    IF onEvicted = NilFunc THEN <<>>
    ELSE SetToSeq({<<k, before[k].Object>> : k \in DOMAIN before \ DOMAIN after})

\* a call that runs from Lock to Unlock with no callback in between
Commit(s, op, k, err) ==
    /\ items' = s.items
    /\ memUsage' = s.memUsage
    /\ array' = s.array
    /\ ret' = Ret(op, k, err, FALSE)
    /\ insertOrder' = orderAfter(s.items, op, err, k)
    /\ called' = <<>>
    /\ gone' = leftOf(items, s.items)
    /\ UNCHANGED <<option, now, track, mu, onEvicted, frames, queueVars, estimatorVars, goroutineVars,
                   janitorVars>>

\* an unfinished call of the goroutine: whether it holds p.mu, whether it waits
\* for p.mu, and the callback invocations it still has to make
Frame(op, k, holds, pending) ==
    [op |-> op, key |-> k, holds |-> holds, waits |-> FALSE, pending |-> pending]

Waiting(op, k) ==
    [op |-> op, key |-> k, holds |-> FALSE, waits |-> TRUE, pending |-> <<>>]

\* a method that calls the callback under the lock whatever the method
\* whether the method holds p.mu when it calls p.onEvicted: Delete defers its
\* Unlock, DeleteExpired unlocks before it reports
holdsLock(op) == op = "Delete"

\* the orders a range over the map can produce
Orders(l) ==
    {[i \in 1..Len(l) |-> l[p[i]]] :
        p \in {q \in [1..Len(l) -> 1..Len(l)] : \A i, j \in 1..Len(l) : q[i] = q[j] => i = j}}

\* a call that has changed the store and goes on to call the callback
Enter(s, op, k, pending) ==
    /\ items' = s.items
    /\ memUsage' = s.memUsage
    /\ array' = s.array
    /\ ret' = Ret(op, k, NilErr, FALSE)
    /\ insertOrder' = orderAfter(s.items, op, NilErr, k)
    /\ called' = <<>>
    /\ gone' = leftOf(items, s.items)
    /\ frames' = <<Frame(op, k, holdsLock(op), pending)>>
    /\ mu' = IF holdsLock(op) THEN "locked" ELSE "unlocked"
    /\ UNCHANGED <<option, now, track, onEvicted, queueVars, estimatorVars, goroutineVars, janitorVars>>

-----------------------------------------------------------------------------
(* Operations *)

\* an Add that does not look the key up first
add_overwrites(s, k, v, d, t) == set(s, k, v, d, t)

\* cache.Add, under the lock
add(s, k, v, d, t) ==
    IF getItem(s.items, k, t).found
    THEN [s |-> s, err |-> ErrExists]
    ELSE set(s, k, v, d, t)

\* a Replace that deducts the old size before it knows the key is live
replace_deductsFirst(s, k, v, d, t) ==
    IF k \notin DOMAIN s.items THEN [s |-> s, err |-> ErrNotFound]
    ELSE LET deducted == Store(s.items, deductMemUsage(s.memUsage, s.items[k].Mem), s.array)
         IN  IF ~getItem(s.items, k, t).found
             THEN [s |-> deducted, err |-> ErrNotFound]
             ELSE LET r == set(deducted, k, v, d, t)
                  IN  IF r.err # NilErr THEN r
                      ELSE [s |-> Store(r.s.items, r.s.memUsage,
                                        queueAdd(queueDelete(r.s.array, k), k)),
                            err |-> NilErr]

\* cache.Replace, under the lock
replace(s, k, v, d, t) ==
    IF ~getItem(s.items, k, t).found
    THEN [s |-> s, err |-> ErrNotFound]
    ELSE LET deducted == Store(s.items, deductMemUsage(s.memUsage, s.items[k].Mem), s.array)
             r == set(deducted, k, v, d, t)
         IN  IF r.err # NilErr THEN r
             ELSE [s |-> Store(r.s.items, r.s.memUsage,
                               queueAdd(queueDelete(r.s.array, k), k)),
                   err |-> NilErr]

\* cache.DeleteExpired: delete every entry whose expiration is set and passed
RECURSIVE deleteAll(_, _)
deleteAll(s, S) ==
    IF S = {} THEN s
    ELSE LET k == CHOOSE x \in S : TRUE
         IN  deleteAll(delete(s, k), S \ {k})

deleteExpired(s, t) ==
    deleteAll(s, {k \in DOMAIN s.items : s.items[k].Expiration > 0 /\ t > s.items[k].Expiration})

\* cache.Flush
flush(s) == Store(<<>>, s.memUsage, s.array)

Set(k, v, d) ==
    /\ Running
    /\ Len(array) < QueueBound
    /\ LET r == set(Cur, k, v, d, now)
       IN  Commit(r.s, "Set", k, r.err)

SetDefault(k, v) ==
    /\ Running
    /\ Len(array) < QueueBound
    /\ LET r == set(Cur, k, v, option.DefaultExpiration, now)
       IN  Commit(r.s, "SetDefault", k, r.err)

Add(k, v, d) ==
    /\ Running
    /\ Len(array) < QueueBound
    /\ LET r == add(Cur, k, v, d, now)
       IN  Commit(r.s, "Add", k, r.err)

Replace(k, v, d) ==
    /\ Running
    /\ Len(array) < QueueBound
    /\ LET r == replace(Cur, k, v, d, now)
       IN  Commit(r.s, "Replace", k, r.err)

\* cache.Delete: with a callback registered and the key found, the callback is
\* called before the deferred Unlock
Delete(k) ==
    /\ Running
    /\ LET s == delete(Cur, k)
           evicted == k \in DOMAIN items /\ onEvicted # NilFunc
       IN  IF evicted
           THEN Enter(s, "Delete", k, <<(<<k, items[k].Object>>)>>)
           ELSE Commit(s, "Delete", k, NilErr)

\* cache.DeleteExpired: the entries deleted while a callback is registered are
\* collected in the order the map is ranged over, and reported after Unlock
DeleteExpired ==
    /\ Running
    /\ LET s == deleteExpired(Cur, now)
           evictedItems == leftOf(items, s.items)
       IN  IF evictedItems # <<>>
           THEN \E pending \in Orders(evictedItems) : Enter(s, "DeleteExpired", "", pending)
           ELSE Commit(s, "DeleteExpired", "", NilErr)

Flush ==
    /\ Running
    /\ Commit(flush(Cur), "Flush", "", NilErr)

\* a Get that deletes the expired entry it meets
Get_deletesExpired(k) ==
    /\ Running
    /\ ret' = Ret("Get", k, NilErr, getItem(items, k, now).found)
    /\ LET s == IF k \in DOMAIN items /\ Expired(items[k], now) THEN delete(Cur, k) ELSE Cur
       IN  /\ items' = s.items
           /\ memUsage' = s.memUsage
           /\ array' = s.array
    /\ UNCHANGED <<option, now, track, insertOrder, queueVars, estimatorVars, goroutineVars,
                   callbackVars, janitorVars>>

Get(k) ==
    /\ Running
    /\ ret' = Ret("Get", k, NilErr, getItem(items, k, now).found)
    /\ UNCHANGED <<items, memUsage, array, option, now, track, insertOrder,
                   queueVars, estimatorVars, goroutineVars, callbackVars, janitorVars>>

GetWithExpiration(k) ==
    /\ Running
    /\ ret' = Ret("GetWithExpiration", k, NilErr, getItem(items, k, now).found)
    /\ UNCHANGED <<items, memUsage, array, option, now, track, insertOrder,
                   queueVars, estimatorVars, goroutineVars, callbackVars, janitorVars>>

\* the ticker of a running janitor sends a tick every Interval, and drops it when
\* one is waiting
TickerFires(t) ==
    /\ janitor \in {"select", "sweeping", "locking", "stopping"}
    /\ (t - 1) % option.CleanupInterval = 0

\* time passes between calls
Tick ==
    /\ Running
    /\ now < MaxTime
    /\ now' = now + 1
    /\ ret' = Ret("Tick", "", NilErr, FALSE)
    /\ ticker' = IF TickerFires(now') THEN 1 ELSE ticker
    /\ UNCHANGED <<items, memUsage, array, option, track, insertOrder,
                   queueVars, estimatorVars, goroutineVars, callbackVars, built, janitor, stop, passes,
                   janitorNow>>

\* the managers WithKeyManager is given: NewNoopManager() or a new NewQueue(0)
KeyManagers == {"noop", "queue"}

\* cache.WithKeyManager: p.keyManager = manager, with no lock taken; what the
\* manager it replaces tracked is gone with it
WithKeyManager(manager) ==
    /\ Running
    /\ keyManager' = manager
    /\ qsize' = queueSize
    /\ array' = <<>>
    /\ ret' = Ret("WithKeyManager", "", NilErr, FALSE)
    /\ UNCHANGED <<items, memUsage, option, now, track, insertOrder, estimatorVars, goroutineVars,
                   callbackVars, janitorVars>>

Next ==
    \/ \E k \in Keys, v \in Values, d \in TTLs : Set(k, v, d)
    \/ \E k \in Keys, v \in Values : SetDefault(k, v)
    \/ \E k \in Keys, v \in Values, d \in TTLs : Add(k, v, d)
    \/ \E k \in Keys, v \in Values, d \in TTLs : Replace(k, v, d)
    \/ \E k \in Keys : Delete(k)
    \/ DeleteExpired
    \/ Flush
    \/ \E k \in Keys : Get(k)
    \/ \E k \in Keys : GetWithExpiration(k)
    \/ Tick

Spec == Init /\ [][Next]_vars

\* The exploration that keeps the insertion history: three keys, one value that
\* never expires, capacity 2 under the memory limit of the tests.
HistoryKeys == {"a", "b", "c"}

HistoryOption == [Capacity |-> 2, MemoryLimit |-> 128, DefaultExpiration |-> NoExpiration]

InitHistory ==
    /\ option = HistoryOption
    /\ items = <<>>
    /\ memUsage = 0
    /\ array = <<>>
    /\ now = 1
    /\ ret = Ret("New", "", NilErr, FALSE)
    /\ insertOrder = NoHistory
    /\ track = TRUE
    /\ qsize = queueSize
    /\ keyManager = "queue"
    /\ NoEstimator
    /\ NoCallback
    /\ NoGoroutines
    /\ NoJanitor

NextHistory ==
    \/ \E k \in HistoryKeys : Set(k, IntVal(1), NoExpiration)
    \/ \E k \in HistoryKeys : Add(k, IntVal(1), NoExpiration)
    \/ \E k \in HistoryKeys : Replace(k, IntVal(1), NoExpiration)
    \/ \E k \in HistoryKeys : Delete(k)
    \/ Flush

SpecHistory == InitHistory /\ [][NextHistory]_vars

-----------------------------------------------------------------------------
(* Eviction callbacks.  A registered callback is a function that, handed the    *)
(* key and value of the entry, returns at once or calls back into the store:   *)
(* Get or Delete of a key it names, or Set of that key to the value it got.     *)

CallbackKeys == {"a", "b"}

ReentryOps == {"Get", "Set", "Delete"}

CallbackFns ==
    {[op |-> "none", key |-> ""]} \cup {[op |-> o, key |-> k] : o \in ReentryOps, k \in CallbackKeys}

\* cache.OnEvicted
OnEvicted(f) ==
    /\ Running
    /\ onEvicted' = f
    /\ ret' = Ret("OnEvicted", "", NilErr, FALSE)
    /\ called' = <<>>
    /\ gone' = <<>>
    /\ UNCHANGED <<items, memUsage, array, option, now, track, insertOrder, mu, frames,
                   queueVars, estimatorVars, goroutineVars, janitorVars>>

\* p.onEvicted(k, v): the innermost unfinished call invokes the callback for the
\* next entry it has to report.  A callback that calls into the store while p.mu
\* is locked waits for it; otherwise its call runs: Get reads, Set is cache.Set,
\* Delete is cache.Delete, which calls the callback in turn when it finds the key.
CallOnEvicted ==
    /\ frames # <<>>
    /\ ret.err # NoReturn
    /\ LET top == frames[Len(frames)]
           kv == Head(top.pending)
           f == onEvicted
           rest == [frames EXCEPT ![Len(frames)].pending = Tail(top.pending)]
       IN  /\ ~top.waits
           /\ top.pending # <<>>
           /\ called' = Append(called, kv)
           /\ IF f.op = "none" \/ (f.op = "Get" /\ mu = "unlocked")
              THEN /\ frames' = rest
                   /\ UNCHANGED <<items, memUsage, array, ret, mu, gone>>
              ELSE IF mu = "locked"
              THEN /\ frames' = Append(rest, Waiting(f.op, f.key))
                   /\ UNCHANGED <<items, memUsage, array, ret, mu, gone>>
              ELSE IF f.op = "Set"
              THEN LET r == set(Cur, f.key, kv[2], NoExpiration, now)
                   IN  /\ items' = r.s.items
                       /\ memUsage' = r.s.memUsage
                       /\ array' = r.s.array
                       /\ gone' = gone \o leftOf(items, r.s.items)
                       /\ ret' = IF r.err = NoReturn THEN Ret("Set", f.key, NoReturn, FALSE) ELSE ret
                       /\ frames' = rest
                       /\ UNCHANGED mu
              ELSE LET s == delete(Cur, f.key)
                       found == f.key \in DOMAIN items
                   IN  /\ items' = s.items
                       /\ memUsage' = s.memUsage
                       /\ array' = s.array
                       /\ gone' = gone \o leftOf(items, s.items)
                       /\ frames' = IF found
                                    THEN Append(rest, Frame("Delete", f.key, holdsLock("Delete"),
                                                            <<(<<f.key, items[f.key].Object>>)>>))
                                    ELSE rest
                       /\ mu' = IF found /\ holdsLock("Delete") THEN "locked" ELSE mu
                       /\ UNCHANGED ret
    /\ UNCHANGED <<option, now, track, insertOrder, onEvicted, queueVars, estimatorVars, goroutineVars,
                   janitorVars>>

\* the innermost unfinished call has reported everything: it unlocks if it holds
\* the lock, and returns
Return ==
    /\ frames # <<>>
    /\ ret.err # NoReturn
    /\ LET top == frames[Len(frames)]
       IN  /\ ~top.waits
           /\ top.pending = <<>>
           /\ frames' = SubSeq(frames, 1, Len(frames) - 1)
           /\ mu' = IF top.holds THEN "unlocked" ELSE mu
    /\ UNCHANGED <<items, memUsage, array, option, now, ret, track, insertOrder, onEvicted,
                   called, gone, queueVars, estimatorVars, goroutineVars, janitorVars>>

NextCallback ==
    \/ \E f \in CallbackFns \cup {NilFunc} : OnEvicted(f)
    \/ \E k \in CallbackKeys, d \in {NoExpiration, MaxTTL} : Set(k, IntVal(1), d)
    \/ \E k \in CallbackKeys : Delete(k)
    \/ DeleteExpired
    \/ CallOnEvicted
    \/ Return
    \/ Tick

\* New with room for one entry, or for two
CallbackOptions == Options \cup {HistoryOption}

InitCallback ==
    /\ option \in CallbackOptions
    /\ items = <<>>
    /\ memUsage = 0
    /\ array = <<>>
    /\ now = 1
    /\ ret = Ret("New", "", NilErr, FALSE)
    /\ insertOrder = NoHistory
    /\ track = FALSE
    /\ qsize = queueSize
    /\ keyManager = "queue"
    /\ NoEstimator
    /\ NoCallback
    /\ NoGoroutines
    /\ NoJanitor

SpecCallback == InitCallback /\ [][NextCallback]_vars

-----------------------------------------------------------------------------
(* Construction and the janitor.  New is called once with an Option; the        *)
(* janitor is a goroutine of its own that selects on its ticker and on its stop *)
(* channel, and the caller goes on using the store New returned.                *)

ErrMemoryLimit == "memory limit is required"
ErrUnsupported == "unsupported key manager"

KeyManagerTypes == {"", "queue", "lru"}

JanitorOptions ==
    {[KeyManagerType |-> t, Capacity |-> 0, MemoryLimit |-> m, CleanupInterval |-> ci,
      DefaultExpiration |-> 1] :
        t \in KeyManagerTypes, m \in {0, 64}, ci \in {0, 1}}

\* NewKeyManager(holder, 0): the error it returns
NewKeyManager(holder) ==
    IF holder = "" \/ holder = "queue" THEN NilErr ELSE ErrUnsupported

InitJanitor ==
    /\ option \in JanitorOptions
    /\ built = "pending"
    /\ janitor = "none"
    /\ stop = "idle"
    /\ ticker = 0
    /\ passes = NoPasses
    /\ janitorNow = 0
    /\ items = <<>>
    /\ memUsage = 0
    /\ array = <<>>
    /\ now = 1
    /\ ret = Ret("start", "", NilErr, FALSE)
    /\ insertOrder = NoHistory
    /\ track = FALSE
    /\ qsize = queueSize
    /\ keyManager = "nil"
    /\ NoEstimator
    /\ NoCallback
    /\ NoGoroutines

\* New(option, nil): the memory limit is checked, newCacheWithJanitor builds the
\* cache and starts the janitor when CleanupInterval > 0, and then the key manager
\* is built
NewCall ==
    /\ built = "pending"
    /\ IF option.MemoryLimit = 0
       THEN /\ built' = "failed"
            /\ ret' = Ret("New", "", ErrMemoryLimit, FALSE)
            /\ UNCHANGED <<janitor, keyManager>>
       ELSE /\ janitor' = IF option.CleanupInterval > 0 THEN "select" ELSE "none"
            /\ built' = IF NewKeyManager(option.KeyManagerType) = NilErr THEN "ok" ELSE "failed"
            /\ ret' = Ret("New", "", NewKeyManager(option.KeyManagerType), FALSE)
            /\ keyManager' = IF NewKeyManager(option.KeyManagerType) = NilErr
                             THEN "queue" ELSE keyManager
    /\ UNCHANGED <<items, memUsage, array, option, now, track, insertOrder, stop, ticker,
                   passes, janitorNow, qsize, estimatorVars, goroutineVars, callbackVars>>

\* janitor.Run, case <-ticker.C: a tick is received and c.DeleteExpired() is called
JanitorTick ==
    /\ janitor = "select"
    /\ ticker = 1
    /\ passes.received < MaxPasses
    /\ janitor' = "sweeping"
    /\ ticker' = 0
    /\ passes' = [passes EXCEPT !.received = @ + 1]
    /\ UNCHANGED <<items, memUsage, array, option, now, ret, track, insertOrder, built,
                   stop, janitorNow, queueVars, estimatorVars, goroutineVars, callbackVars>>

\* DeleteExpired of the janitor: now := time.Now().UnixNano(), read before the lock
\* is asked for
JanitorEnter ==
    /\ janitor = "sweeping"
    /\ janitorNow' = now
    /\ janitor' = "locking"
    /\ UNCHANGED <<items, memUsage, array, option, now, ret, track, insertOrder, built,
                   stop, ticker, passes, queueVars, estimatorVars, goroutineVars, callbackVars>>

\* DeleteExpired of the janitor, from p.mu.Lock() to p.mu.Unlock(): once the lock
\* is free, the entries expired at the time the call read are deleted
JanitorSweep ==
    /\ janitor = "locking"
    /\ Running
    /\ LET s == deleteExpired(Cur, janitorNow)
       IN  /\ items' = s.items
           /\ memUsage' = s.memUsage
           /\ array' = s.array
    /\ janitor' = "select"
    /\ passes' = [passes EXCEPT !.swept = @ + 1]
    /\ UNCHANGED <<option, now, ret, track, insertOrder, built, stop, ticker, janitorNow,
                   queueVars, estimatorVars, goroutineVars, callbackVars>>

\* stopJanitor: p.janitor.stop <- true, a send that waits for the janitor
SendStop ==
    /\ janitor # "none"
    /\ stop = "idle"
    /\ stop' = "sending"
    /\ UNCHANGED <<items, memUsage, array, option, now, ret, track, insertOrder, built,
                   janitor, ticker, passes, janitorNow, queueVars, estimatorVars, goroutineVars,
                   callbackVars>>

\* a janitor that goes back to its select after the stop signal
JanitorStop_keepsRunning ==
    /\ janitor = "select"
    /\ stop = "sending"
    /\ stop' = "delivered"
    /\ UNCHANGED <<items, memUsage, array, option, now, ret, track, insertOrder, built,
                   janitor, ticker, passes, janitorNow, queueVars, estimatorVars, goroutineVars,
                   callbackVars>>

\* janitor.Run, case <-p.stop: the stop signal is delivered
JanitorStop ==
    /\ janitor = "select"
    /\ stop = "sending"
    /\ stop' = "delivered"
    /\ janitor' = "stopping"
    /\ UNCHANGED <<items, memUsage, array, option, now, ret, track, insertOrder, built,
                   ticker, passes, janitorNow, queueVars, estimatorVars, goroutineVars,
                   callbackVars>>

\* janitor.Run: ticker.Stop() and return
JanitorReturn ==
    /\ janitor = "stopping"
    /\ janitor' = "done"
    /\ UNCHANGED <<items, memUsage, array, option, now, ret, track, insertOrder, built,
                   stop, ticker, passes, janitorNow, queueVars, estimatorVars, goroutineVars,
                   callbackVars>>

NextJanitor ==
    \/ NewCall
    \/ built = "ok" /\ \E d \in {NoExpiration, MaxTTL} : Set("a", IntVal(1), d)
    \/ built = "ok" /\ Get("a")
    \/ built = "ok" /\ \E manager \in KeyManagers : WithKeyManager(manager)
    \/ built # "pending" /\ Tick
    \/ JanitorTick
    \/ JanitorEnter
    \/ JanitorSweep
    \/ SendStop
    \/ JanitorStop
    \/ JanitorReturn

\* the janitor goroutine is scheduled: after the stop signal it gets to return
SpecJanitor == InitJanitor /\ [][NextJanitor]_vars /\ WF_vars(JanitorReturn)

-----------------------------------------------------------------------------
(* The key manager alone: a queue driven by Add, Delete and Peek on unique keys *)

QueueKeys == {"a", "b", "c", "d"}

\* NewQueue(size): unbounded as New builds it, or bounded as the tests build it
QueueSizes == {queueSize, BoundedQueueSize}

\* the queue has no cache around it
NoStore ==
    /\ items = <<>>
    /\ memUsage = 0
    /\ option = HistoryOption
    /\ now = 1

NewQueue ==
    /\ qsize \in QueueSizes
    /\ keyManager = "queue"
    /\ array = <<>>
    /\ ret = Ret("NewQueue", "", NilErr, FALSE)

InitQueue ==
    /\ NewQueue
    /\ NoStore
    /\ NoEstimator
    /\ NoCallback
    /\ NoGoroutines
    /\ NoJanitor
    /\ track = TRUE
    /\ insertOrder = NoHistory

\* the keys that are tracked, in the order they were accepted, for as long as the
\* queue has been driven through Add and Delete alone
trackedAfterAdd(k, added) ==
    IF ~track THEN NoHistory
    ELSE IF added
    THEN [first |-> Append(insertOrder.first, k), last |-> Append(insertOrder.last, k)]
    ELSE insertOrder

trackedAfterDelete(k) ==
    IF ~track THEN NoHistory
    ELSE [first |-> keep(insertOrder.first, QueueKeys \ {k}),
          last  |-> keep(insertOrder.last, QueueKeys \ {k})]

\* queue.Add of a key that is not tracked; found reports the bool it returns
QueueAdd(k) ==
    /\ k \notin Range(array)
    /\ Len(array) < MaxTracked
    /\ LET added == ~(qsize # 0 /\ Len(array) >= qsize)
       IN  /\ array' = queueAdd(array, k)
           /\ ret' = Ret("queue.Add", k, NilErr, added)
           /\ insertOrder' = trackedAfterAdd(k, added)
    /\ UNCHANGED <<items, memUsage, option, now, track, queueVars, estimatorVars, goroutineVars,
                   callbackVars, janitorVars>>

\* queue.Delete
QueueDelete(k) ==
    /\ array' = queueDelete(array, k)
    /\ ret' = Ret("queue.Delete", k, NilErr, FALSE)
    /\ insertOrder' = trackedAfterDelete(k)
    /\ UNCHANGED <<items, memUsage, option, now, track, queueVars, estimatorVars, goroutineVars,
                   callbackVars, janitorVars>>

\* queue.Peek
QueuePeek ==
    /\ ret' = Ret("queue.Peek", Peek(array).res, Peek(array).err, FALSE)
    /\ UNCHANGED <<items, memUsage, array, option, now, track, insertOrder,
                   queueVars, estimatorVars, goroutineVars, callbackVars, janitorVars>>

\* the values one Enqueue call is given: one key or two, of any keys
EnqueueValues == {<<k>> : k \in QueueKeys} \cup {<<k, l>> : k \in QueueKeys, l \in QueueKeys}

\* queue.Enqueue: the values are appended, with no test of the size and of no key
QueueEnqueue(values) ==
    /\ Len(array) + Len(values) <= MaxTracked
    /\ array' = array \o values
    /\ ret' = Ret("queue.Enqueue", "", NilErr, FALSE)
    /\ track' = FALSE
    /\ insertOrder' = NoHistory
    /\ UNCHANGED <<items, memUsage, option, now, queueVars, estimatorVars, goroutineVars,
                   callbackVars, janitorVars>>

\* queue.Clear: p.array = nil
QueueClear ==
    /\ array' = <<>>
    /\ ret' = Ret("queue.Clear", "", NilErr, FALSE)
    /\ track' = FALSE
    /\ insertOrder' = NoHistory
    /\ UNCHANGED <<items, memUsage, option, now, queueVars, estimatorVars, goroutineVars,
                   callbackVars, janitorVars>>

\* queue.Dequeue: the front key and the queue without it, or the empty-queue error
dequeue(q) ==
    IF Len(q) = 0
    THEN [res |-> "", err |-> ErrEmptyQueue, array |-> q]
    ELSE [res |-> q[1], err |-> NilErr, array |-> Tail(q)]

\* queue.Dequeue, and queue.Shift, which is Dequeue under the mutex of the queue
QueueDequeue(op) ==
    /\ array' = dequeue(array).array
    /\ ret' = Ret(op, dequeue(array).res, dequeue(array).err, FALSE)
    /\ track' = FALSE
    /\ insertOrder' = NoHistory
    /\ UNCHANGED <<items, memUsage, option, now, queueVars, estimatorVars, goroutineVars,
                   callbackVars, janitorVars>>

NextQueue ==
    \/ \E k \in QueueKeys : QueueAdd(k)
    \/ \E k \in QueueKeys : QueueDelete(k)
    \/ QueuePeek
    \/ \E values \in EnqueueValues : QueueEnqueue(values)
    \/ QueueClear
    \/ \E op \in {"queue.Dequeue", "queue.Shift"} : QueueDequeue(op)

SpecQueue == InitQueue /\ [][NextQueue]_vars

-----------------------------------------------------------------------------
(* The estimator on records linked by references.  A record is a struct with   *)
(* one int field and two pointer fields, E and F, as the V of TestCycles with  *)
(* a second pointer; heap maps the address of a record to its pointer fields.  *)

NilPtr == 0

RecordWords == 3    \* fields of a record: Z int, E *V, F *V

RecordSize == WordSize * RecordWords

Addresses == 1..MaxNodes

Pointers == {NilPtr} \cup Addresses

Fields == {"E", "F"}

\* a value handed to DeepSize: a pointer to a record (E holds the pointer), or a
\* record by value, which reflect sees as a copy with no address of its own
PtrVal(p) == [kind |-> "ptr", E |-> p, F |-> NilPtr]
StructVal(e, f) == [kind |-> "struct", E |-> e, F |-> f]

Roots == {PtrVal(p) : p \in Pointers} \cup {StructVal(e, f) : e \in Pointers, f \in Pointers}

Heaps == [Addresses -> [E : Pointers, F : Pointers]]

RECURSIVE structSize(_, _, _)

\* a pointer field whose target was visited adds the target's layout size again
fieldSize_countsSeen(h, p, seen) ==
    IF p = NilPtr THEN [size |-> 0, seen |-> seen]
    ELSE IF p \in seen THEN [size |-> RecordSize, seen |-> seen]
    ELSE structSize(h, h[p], seen \cup {p})

\* valueSize, reflect.Struct, one pointer field: chase it unless nil or seen
fieldSize(h, p, seen) ==
    IF p # NilPtr /\ p \notin seen
    THEN structSize(h, h[p], seen \cup {p})
    ELSE [size |-> 0, seen |-> seen]

\* valueSize, reflect.Struct: the layout size plus what the pointer fields reach,
\* field by field, the seen map shared by the whole call
structSize(h, rec, seen) ==
    LET e == fieldSize(h, rec.E, seen)
        f == fieldSize(h, rec.F, e.seen)
    IN  [size |-> RecordSize + e.size + f.size, seen |-> f.seen]

\* valueSize, reflect.Ptr: the pointer plus its target unless nil or seen
ptrSize(h, p, seen) ==
    IF p # NilPtr /\ p \notin seen
    THEN LET t == structSize(h, h[p], seen \cup {p})
         IN  [size |-> WordSize + t.size, seen |-> t.seen]
    ELSE [size |-> WordSize, seen |-> seen]

\* valueSize(v, seen) on a pointer or a record
valueSizeSeen(h, v, seen) ==
    IF v.kind = "ptr" THEN ptrSize(h, v.E, seen)
    ELSE structSize(h, v, seen)

\* DeepSize(v): valueSize with an empty seen map
DeepSizeOf(h, v) == valueSizeSeen(h, v, {}).size

InitDeepSize ==
    /\ heap \in Heaps
    /\ root \in Roots
    /\ estimate = NotEstimated
    /\ NoStore
    /\ NoCallback
    /\ NoGoroutines
    /\ NoJanitor
    /\ array = <<>>
    /\ qsize = queueSize
    /\ keyManager = "queue"
    /\ ret = Ret("DeepSize", "", NilErr, FALSE)
    /\ track = FALSE
    /\ insertOrder = NoHistory

\* the records a set of addresses reaches
RECURSIVE Reach(_, _)
Reach(h, S) ==
    LET next == (S \cup {h[n].E : n \in S} \cup {h[n].F : n \in S}) \ {NilPtr}
    IN  IF next = S THEN S ELSE Reach(h, next)

Targets(v) == {v.E, v.F} \ {NilPtr}

severed(h, n, f) == [h EXCEPT ![n][f] = NilPtr]

\* the reference in field f of record n points at a record the value reaches
\* without it: a back-reference of a cycle, or a second reference to a shared record
Redundant(h, v, n, f) ==
    /\ n \in Reach(h, Targets(v))
    /\ h[n][f] # NilPtr
    /\ Reach(severed(h, n, f), Targets(v)) = Reach(h, Targets(v))

\* DeepSize(root)
DeepSizeCall ==
    /\ estimate' = DeepSizeOf(heap, root)
    /\ UNCHANGED <<heap, root, items, memUsage, array, option, now, ret, track,
                   insertOrder, queueVars, callbackVars, janitorVars, goroutineVars>>

\* the program sets a redundant reference to nil
Sever(n, f) ==
    /\ Redundant(heap, root, n, f)
    /\ heap' = severed(heap, n, f)
    /\ UNCHANGED <<root, estimate, items, memUsage, array, option, now, ret, track,
                   insertOrder, queueVars, callbackVars, janitorVars, goroutineVars>>

NextDeepSize ==
    \/ DeepSizeCall
    \/ \E n \in Addresses, f \in Fields : Sever(n, f)

SpecDeepSize == InitDeepSize /\ [][NextDeepSize]_vars

-----------------------------------------------------------------------------
(* Properties *)

RECURSIVE SumMem(_, _)
SumMem(its, S) ==
    IF S = {} THEN 0
    ELSE LET k == CHOOSE x \in S : TRUE
         IN  its[k].Mem + SumMem(its, S \ {k})

StoreUnchanged == items' = items /\ memUsage' = memUsage /\ array' = array

Failed(r) == r.err \notin {NilErr, NoReturn}

\* C1: after every completed operation the keys the policy tracks are exactly the
\* keys of the entry map, each tracked once (policy Size() = store Size()).
C1_PolicyMatchesMap ==
    Running => (Range(array) = DOMAIN items /\ Len(array) = Cardinality(DOMAIN items))

\* C2: after every completed operation the memory counter equals the sum of the
\* Mem sizes of the entries in the map.
C2_CounterIsSumOfMem ==
    Running => memUsage = SumMem(items, DOMAIN items)

\* C3: a Set that returns an error leaves the entry map, the memory
\* counter and the policy's keys exactly as they were before the call.
C3_FailedSetChangesNothing ==
    [][(ret'.op = "Set" /\ Failed(ret')) => StoreUnchanged]_vars

\* C4: with memoryLimit > 0, after every successful Set, SetDefault, Add or Replace
\* the memory counter is at most memoryLimit.
C4_WithinMemoryLimit ==
    (option.MemoryLimit > 0 /\ ret.op \in InsertOps /\ ret.err = NilErr)
        => memUsage <= option.MemoryLimit

\* C5: with capacity C > 0, Size() <= C after every completed operation.
C5_WithinCapacity ==
    (option.Capacity > 0 /\ Running) => Cardinality(DOMAIN items) <= option.Capacity

Position(q, k) == CHOOSE i \in 1..Len(q) : q[i] = k

\* C6: eviction is oldest-first: whenever an insert removes other keys from the
\* map, every key it removed was written before every key it leaves stored,
\* counting a key's age from its first write or from its latest write.
C6_EvictsOldestFirst ==
    [][ret'.op \in InsertOps =>
          \A x \in DOMAIN items \ DOMAIN items' :
              \A y \in (DOMAIN items \cap DOMAIN items') \ {ret'.key} :
                  \/ Position(insertOrder.first, x) < Position(insertOrder.first, y)
                  \/ Position(insertOrder.last, x) < Position(insertOrder.last, y)]_vars

\* the ttl an insert uses: zero stands for the configured default
EffectiveTTL(d) == IF d = ZeroExpiration THEN option.DefaultExpiration ELSE d

\* what C7 says of a lookup at time tau of an entry written at time t with ttl d
LiveAt(d, t, tau) == IF EffectiveTTL(d) < 0 THEN TRUE ELSE tau <= t + EffectiveTTL(d)

\* what the three inserts do to the store as it is now
insertResults(k, v, d) ==
    {set(Cur, k, v, d, now), add(Cur, k, v, d, now), replace(Cur, k, v, d, now)}

\* C7: an entry written at time t with ttl d is found by a lookup at every later
\* time when d is negative, exactly while now <= t + d when d > 0, and as for the
\* configured default when d = 0, as long as the entry stays in the map; and Get
\* and GetWithExpiration report a stored entry found exactly while its expiration
\* is unset or not passed.
C7_Lifetime ==
    /\ \A k \in Keys, v \in Values, d \in TTLs :
           \A r \in insertResults(k, v, d) :
               (r.err = NilErr /\ EffectiveTTL(d) # 0) =>
                   \A tau \in now..(MaxTime + MaxTTL + 1) :
                       getItem(r.s.items, k, tau).found = LiveAt(d, now, tau)
    /\ ret.op \in {"Get", "GetWithExpiration"} =>
           ret.found = (/\ ret.key \in DOMAIN items
                        /\ (items[ret.key].Expiration <= 0 \/ now <= items[ret.key].Expiration))

\* C7 witness: a lookup reported absent an entry that is stored with a positive
\* expiration instant that has passed
C7_Witness ==
    /\ ret.op = "Get"
    /\ ~ret.found
    /\ ret.key \in DOMAIN items
    /\ items[ret.key].Expiration > 0
    /\ now > items[ret.key].Expiration

LookupOps == {"Get", "GetWithExpiration"}

LookupFrame ==
    ret'.op \in LookupOps =>
        /\ StoreUnchanged
        /\ (ret'.key \in DOMAIN items /\ items[ret'.key].Expiration > 0
              /\ now > items[ret'.key].Expiration) => ~ret'.found

\* C8 as stated: a lookup of an expired entry reports it absent and changes nothing,
\* and Size() decreases only through Delete, DeleteExpired or an eviction by an insert.
C8_SizeDropsOnlyByRemoveSweepEvict ==
    [][/\ LookupFrame
       /\ Cardinality(DOMAIN items') < Cardinality(DOMAIN items) =>
              ret'.op \in {"Delete", "DeleteExpired"} \cup InsertOps]_vars

\* C8 amended: a lookup of an expired entry reports it absent and changes nothing,
\* and Size() decreases only through Delete, DeleteExpired, Flush or an eviction by
\* an insert.
C8_SizeDropsOnlyByRemoveSweepFlushEvict ==
    [][/\ LookupFrame
       /\ Cardinality(DOMAIN items') < Cardinality(DOMAIN items) =>
              ret'.op \in {"Delete", "DeleteExpired", "Flush"} \cup InsertOps]_vars

\* C8 witness: GetWithExpiration reported absent an expired entry that is still stored
C8_Witness ==
    /\ ret.op = "GetWithExpiration"
    /\ ~ret.found
    /\ ret.key \in DOMAIN items
    /\ Expired(items[ret.key], now)

\* C9: Add on a key that is present and not expired returns the already-exists
\* error and leaves the map, the counter and the policy order unchanged.
C9_AddOnLiveKeyFails ==
    [][(/\ ret'.op = "Add"
        /\ ret'.key \in DOMAIN items
        /\ (items[ret'.key].Expiration <= 0 \/ now <= items[ret'.key].Expiration)) =>
           (ret'.err = ErrExists /\ StoreUnchanged)]_vars

\* C9 witness: an Add returned already-exists for a key that is stored and live
C9_Witness ==
    /\ ret.op = "Add"
    /\ ret.err = ErrExists
    /\ ret.key \in DOMAIN items
    /\ ~Expired(items[ret.key], now)

\* C10: Replace on a key that is absent or expired returns the not-found error,
\* creates no entry and leaves the map, the counter and the policy unchanged.
C10_ReplaceOnMissingKeyFails ==
    [][(/\ ret'.op = "Replace"
        /\ \/ ret'.key \notin DOMAIN items
           \/ (items[ret'.key].Expiration > 0 /\ now > items[ret'.key].Expiration)) =>
           (ret'.err = ErrNotFound /\ StoreUnchanged)]_vars

\* C10 witness: a Replace returned not-found for a key whose expired entry is
\* still stored, in a store whose counter is not zero
C10_Witness ==
    /\ ret.op = "Replace"
    /\ ret.err = ErrNotFound
    /\ ret.key \in DOMAIN items
    /\ Expired(items[ret.key], now)
    /\ memUsage > 0

\* the index of the first occurrence of k in q, 0 when the queue does not hold it
FirstIndex(q, k) ==
    IF \E i \in 1..Len(q) : q[i] = k
    THEN CHOOSE i \in 1..Len(q) : q[i] = k /\ \A h \in 1..(i - 1) : q[h] # k
    ELSE 0

\* C11: after a successful Replace of the key at the front of the policy, while
\* another key is stored, the front of the policy is a different key and every other
\* stored key comes before the replaced key in the policy's order.
C11_ReplacedFrontMovesToTail ==
    [][(/\ ret'.op = "Replace"
        /\ ret'.err = NilErr
        /\ Peek(array).res = ret'.key
        /\ DOMAIN items \ {ret'.key} # {}) =>
           /\ Peek(array').res # ret'.key
           /\ \A y \in DOMAIN items' \ {ret'.key} :
                  /\ FirstIndex(array', y) > 0
                  /\ FirstIndex(array', y) < FirstIndex(array', ret'.key)]_vars

\* C12: after Flush returns, the entry count, the memory counter and the number of
\* keys the policy tracks are all zero.
C12_FlushResetsAll ==
    ret.op = "Flush" => (Cardinality(DOMAIN items) = 0 /\ memUsage = 0 /\ Len(array) = 0)

\* C20: every Set, SetDefault, Add and Replace call returns: the memory loop of set
\* frees enough space or returns an error.
C20_InsertReturns ==
    ret.op \in InsertOps => ret.err # NoReturn

\* C18: in the queue driven by Add and Delete alone, on unique keys, Peek answers the key
\* accepted earliest among the keys still tracked and leaves the queue as it was,
\* it fails with the empty-queue error exactly when no key is tracked, and Delete
\* of one key keeps the order of all the other keys.
C18_QueuePeeksOldest ==
    [][/\ (track /\ ret'.op = "queue.Peek") =>
              /\ array' = array
              /\ (ret'.err = ErrEmptyQueue) = (insertOrder.first = <<>>)
              /\ ret'.err \in {ErrEmptyQueue, NilErr}
              /\ insertOrder.first # <<>> => ret'.key = Head(insertOrder.first)
       /\ (track /\ ret'.op = "queue.Delete") =>
              /\ array' = keep(array, Range(array) \ {ret'.key})
              /\ Range(array') = Range(insertOrder'.first)]_vars

\* C18 witness: Peek answered "b" while "a", tracked after it, is behind it
C18_Witness ==
    /\ track
    /\ ret.op = "queue.Peek"
    /\ ret.err = NilErr
    /\ ret.key = "b"
    /\ FirstIndex(array, "a") > 1

\* the estimate of a value that counts every record it reaches once
OncePerRecord(h, v) ==
    (IF v.kind = "ptr" THEN WordSize ELSE RecordSize)
        + RecordSize * Cardinality(Reach(h, Targets(v)))

\* C19: DeepSize of a value whose records refer to themselves or to each other
\* equals DeepSize of the same value with a back-reference set to nil, and a
\* record already visited in the call adds nothing: every record the value
\* reaches is counted once.
C19_CycleSafe ==
    /\ estimate # NotEstimated => estimate = OncePerRecord(heap, root)
    /\ \A n \in Addresses, f \in Fields :
           Redundant(heap, root, n, f) =>
               DeepSizeOf(severed(heap, n, f), root) = DeepSizeOf(heap, root)

\* C19 witness: DeepSize has returned for a pointer to a record that refers to a
\* second record that refers back to the first
C19_Witness ==
    /\ estimate # NotEstimated
    /\ root.kind = "ptr"
    /\ root.E = 1
    /\ heap[1].E = 2
    /\ heap[2].E = 1

\* the unfinished call i is about to call the callback
Reports(i) == ~frames[i].waits /\ frames[i].pending # <<>>

\* a call made by the callback that call i invoked waits for the lock call i holds
BlockedUnder(i) ==
    /\ frames[i].holds
    /\ i < Len(frames)
    /\ frames[i + 1].waits

\* C13: Delete calls the callback only after it has released the lock, and a
\* callback that calls Get, Set or Delete never waits for a lock Delete holds.
C13_DeleteCallsBackUnlocked ==
    \A i \in 1..Len(frames) :
        frames[i].op = "Delete" =>
            /\ Reports(i) => mu = "unlocked"
            /\ ~BlockedUnder(i)

\* C14: DeleteExpired calls the callbacks of a pass only after its removals are
\* done and the lock is released: it does not hold the lock while it has entries
\* to report, and a callback of the pass that re-enters the store does not
\* deadlock: no call made from inside the pass, at any depth, waits for the lock.
C14_SweepCallsBackUnlocked ==
    \A i \in 1..Len(frames) :
        frames[i].op = "DeleteExpired" =>
            /\ ~frames[i].holds
            /\ (i = Len(frames) /\ Reports(i)) => mu = "unlocked"
            /\ \A j \in (i + 1)..Len(frames) : ~frames[j].waits

Count(l, x) == Cardinality({i \in 1..Len(l) : l[i] = x})

\* C15: with a callback registered, when Delete, DeleteExpired or an insert has
\* returned, the callback has been called exactly once, with its key and value,
\* for every entry that left the map during the call, and for no other entry.
C15_CalledOncePerEvictedEntry ==
    (/\ Running
     /\ onEvicted # NilFunc
     /\ ret.op \in {"Delete", "DeleteExpired"} \cup InsertOps) =>
        \A x \in Range(called) \cup Range(gone) : Count(called, x) = Count(gone, x)

\* C16: the janitor exists only when CleanupInterval > 0 (and does when New
\* succeeded with CleanupInterval > 0); it makes one DeleteExpired pass for each
\* tick it receives; once the stop signal is delivered it starts no further pass,
\* and it terminates.
C16_SweeperLifecycle ==
    /\ [](janitor # "none" => option.CleanupInterval > 0)
    /\ []((built = "ok" /\ option.CleanupInterval > 0) => janitor # "none")
    /\ [](/\ passes.swept <= passes.received
          /\ passes.received <= passes.swept + 1
          /\ (janitor \in {"sweeping", "locking"}) = (passes.received = passes.swept + 1))
    /\ [][passes'.swept # passes.swept =>
              /\ passes'.swept = passes.swept + 1
              /\ Store(items', memUsage', array') = deleteExpired(Cur, janitorNow)]_vars
    /\ [](stop = "delivered" => janitor \in {"stopping", "done"})
    /\ [][stop = "delivered" => passes' = passes]_vars
    /\ (stop = "delivered") ~> (janitor = "done")

\* C16 witness: the janitor of a store New returned has made a pass, has been
\* stopped, and has terminated
C16_Witness ==
    /\ built = "ok"
    /\ janitor = "done"
    /\ stop = "delivered"
    /\ passes.swept >= 1

\* C17: New fails exactly when MemoryLimit is zero or the key manager type is
\* neither empty nor "queue", and a New that failed leaves no janitor running.
C17_NewFailsCleanly ==
    built # "pending" =>
        /\ (built = "failed") = (option.MemoryLimit = 0 \/ option.KeyManagerType \notin {"", "queue"})
        /\ built = "failed" => janitor \in {"none", "done"}

\* the entries a DeleteExpired pass that starts at time t has to remove
Due(its, t) == {k \in DOMAIN its : its[k].Expiration > 0 /\ its[k].Expiration < t}

\* C22: a DeleteExpired pass removes exactly the entries whose expiration instant
\* is set and earlier than the time of the pass, deducts the size of each from
\* the counter and untracks its key; every other entry keeps its value, its
\* expiration, its size and its position in the policy order.
C22_SweepRemovesExactlyExpired ==
    [][ret'.op = "DeleteExpired" =>
          /\ DOMAIN items' = DOMAIN items \ Due(items, now)
          /\ \A k \in DOMAIN items' : items'[k] = items[k]
          /\ memUsage' = memUsage - SumMem(items, Due(items, now))
          /\ Range(array') \cap Due(items, now) = {}
          /\ keep(array', DOMAIN items') = keep(array, DOMAIN items')]_vars

\* the call that has just returned wrote, with Set or Replace, a key that was
\* stored and not expired, and the entry it wrote has the size of the old one
OverwroteSameSize ==
    /\ ret'.op \in {"Set", "Replace"}
    /\ ret'.err = NilErr
    /\ getItem(items, ret'.key, now).found
    /\ ret'.key \in DOMAIN items'
    /\ items'[ret'.key].Mem = items[ret'.key].Mem

\* C23: overwriting a key that is present and unexpired, by Replace or by Set,
\* with a value of the same estimated size leaves the set of stored keys and
\* Size() unchanged: no other key is evicted, also at capacity.
C23_OverwriteKeepsKeys ==
    [][OverwroteSameSize =>
          /\ DOMAIN items' = DOMAIN items
          /\ Cardinality(DOMAIN items') = Cardinality(DOMAIN items)]_vars

-----------------------------------------------------------------------------
(* Goroutines.  Several goroutines call the store side by side; a call is a    *)
(* sequence of steps, and the steps of different calls interleave.  A step is  *)
(* what a call does between two points where the mutex orders it: taking the   *)
(* lock, the work under it, releasing it, and what it does with no lock held.  *)
(* Flush writes the field p.items with no lock, so the work under the lock is  *)
(* cut at every read of that field: each step reads it once, and Flush can     *)
(* land between any two of them.  What a call returns to its goroutine is not  *)
(* kept.  The key manager is the queue New installed.                          *)

MaxGoroutines == 2

Goroutines == 1..MaxGoroutines

ConcurrentKey == "a"

\* two callbacks that return at once; key tells one from the other
Observers == {[op |-> "none", key |-> ""], [op |-> "none", key |-> "second"]}

\* p.mu as each method uses it: Lock, RLock, or not at all
LockMode(op) ==
    IF op \in {"Set", "Add", "Replace", "Delete", "DeleteExpired", "OnEvicted"} THEN "exclusive"
    ELSE IF op \in {"Get", "GetWithExpiration"} THEN "shared"
    ELSE "none"

NoCall == [op |-> "", key |-> "", d |-> 0, f |-> NilFunc]

\* the calls a goroutine makes
Calls ==
    {[op |-> o, key |-> ConcurrentKey, d |-> d, f |-> NilFunc] :
        o \in {"Set", "Add", "Replace"}, d \in {NoExpiration, MaxTTL}}
    \cup {[op |-> o, key |-> ConcurrentKey, d |-> 0, f |-> NilFunc] :
        o \in {"Delete", "Get", "GetWithExpiration"}}
    \cup {[op |-> o, key |-> "", d |-> 0, f |-> NilFunc] :
        o \in {"DeleteExpired", "Flush", "Size", "Alloc"}}
    \cup {[op |-> "OnEvicted", key |-> "", d |-> 0, f |-> f] : f \in Observers \cup {NilFunc}}

\* a goroutine between calls.  In a call: the call, the point it has reached, the
\* time it read, the key it peeked or found, the requireSpace of set, the keys
\* the range of DeleteExpired has still to visit, the evictedItems it has still
\* to report, and (history) the callback that was registered when it ranged
Idle ==
    [call |-> NoCall, pc |-> "idle", t |-> 0, key |-> "", requireSpace |-> 0, todo |-> <<>>,
     pending |-> <<>>, registered |-> NilFunc]

\* a nil callback was called: the program has panicked
Alive == \A g \in Goroutines : goroutines[g].pc # "panic"

\* set, line 327: where it goes after the capacity check with the counter at
\* usage; the memory loop runs while requireSpace > 0
memoryNext(usage, size) ==
    LET requireSpace == (usage + size) - option.MemoryLimit
    IN  IF option.MemoryLimit > 0 /\ usage + size >= option.MemoryLimit /\ requireSpace > 0
        THEN [pc |-> "loop", requireSpace |-> requireSpace]
        ELSE [pc |-> "store", requireSpace |-> 0]

\* set from the write of the entry on, and the move to the tail of Replace
setStore(s, op, k, v, d, t) ==
    LET size == calculateItemSize(k, v)
        written == Store([x \in DOMAIN s.items \cup {k} |->
                             IF x = k
                             THEN [Object |-> v, Expiration |-> expiration(d, t), Mem |-> size]
                             ELSE s.items[x]],
                         addMemUsage(s.memUsage, size),
                         queueAdd(s.array, k))
    IN  IF op = "Replace"
        THEN Store(written.items, written.memUsage, queueAdd(queueDelete(written.array, k), k))
        ELSE written

\* a step of goroutine g that leaves it at pc
Goto(g, pc) == goroutines' = [goroutines EXCEPT ![g].pc = pc]

\* a goroutine enters a method; DeleteExpired reads the time before it locks
Call(g, c) ==
    /\ Alive
    /\ goroutines[g].pc = "idle"
    /\ c.op \in InsertOps => Len(array) < QueueBound
    /\ goroutines' = [goroutines EXCEPT ![g] =
           [Idle EXCEPT !.call = c, !.pc = "call",
                        !.t = IF c.op = "DeleteExpired" THEN now ELSE 0]]
    /\ UNCHANGED <<items, memUsage, array, option, now, ret, track, insertOrder, queueVars,
                   estimatorVars, callbackVars, janitorVars>>

\* p.mu.Lock()
Lock(g) ==
    /\ Alive
    /\ goroutines[g].pc = "call"
    /\ LockMode(goroutines[g].call.op) = "exclusive"
    /\ mu = "unlocked"
    /\ mu' = "locked"
    /\ Goto(g, "locked")
    /\ UNCHANGED <<items, memUsage, array, option, now, ret, track, insertOrder, onEvicted,
                   frames, called, gone, queueVars, estimatorVars, janitorVars>>

\* p.mu.RLock()
RLock(g) ==
    /\ Alive
    /\ goroutines[g].pc = "call"
    /\ LockMode(goroutines[g].call.op) = "shared"
    /\ mu # "locked"
    /\ mu' = "rlocked"
    /\ Goto(g, "rlocked")
    /\ UNCHANGED <<items, memUsage, array, option, now, ret, track, insertOrder, onEvicted,
                   frames, called, gone, queueVars, estimatorVars, janitorVars>>

\* Add and Replace under the lock: the lookup of the key.  Add returns its error
\* when it finds the key, Replace when it does not, and Replace deducts the size
\* of the entry it found
LockedLookup(g) ==
    /\ Alive
    /\ goroutines[g].pc = "locked"
    /\ goroutines[g].call.op \in {"Add", "Replace"}
    /\ LET c == goroutines[g].call
           found == getItem(items, c.key, now).found
       IN  /\ Goto(g, IF found = (c.op = "Replace") THEN "capacity" ELSE "unlock")
           /\ memUsage' = IF found /\ c.op = "Replace"
                          THEN deductMemUsage(memUsage, items[c.key].Mem)
                          ELSE memUsage
    /\ UNCHANGED <<items, array, option, now, ret, track, insertOrder, queueVars,
                   estimatorVars, callbackVars, janitorVars>>

\* set under the lock, lines 304-321 and 327: the expiration is computed from the
\* time read now; at capacity the key manager is peeked, and an error of Peek is
\* returned; below capacity set goes on to the memory check
LockedCapacity(g) ==
    /\ Alive
    /\ \/ goroutines[g].pc = "capacity"
       \/ goroutines[g].pc = "locked" /\ goroutines[g].call.op = "Set"
    /\ LET c == goroutines[g].call
           pk == Peek(array)
           m == memoryNext(memUsage, calculateItemSize(c.key, IntVal(1)))
       IN  goroutines' = [goroutines EXCEPT ![g] =
               IF option.Capacity > 0 /\ Size(Cur) >= option.Capacity
               THEN IF pk.err # NilErr
                    THEN [goroutines[g] EXCEPT !.pc = "unlock"]
                    ELSE [goroutines[g] EXCEPT !.pc = "evict", !.t = now, !.key = pk.res]
               ELSE [goroutines[g] EXCEPT !.pc = m.pc, !.t = now,
                                          !.requireSpace = m.requireSpace]]
    /\ UNCHANGED <<items, memUsage, array, option, now, ret, track, insertOrder, queueVars,
                   estimatorVars, callbackVars, janitorVars>>

\* set under the lock, lines 323 and 327: p.delete of the key peeked at capacity,
\* then the memory check
LockedEvict(g) ==
    /\ Alive
    /\ goroutines[g].pc = "evict"
    /\ LET c == goroutines[g].call
           s == delete(Cur, goroutines[g].key)
           m == memoryNext(s.memUsage, calculateItemSize(c.key, IntVal(1)))
       IN  /\ items' = s.items
           /\ memUsage' = s.memUsage
           /\ array' = s.array
           /\ goroutines' = [goroutines EXCEPT ![g].pc = m.pc, ![g].key = "",
                                                ![g].requireSpace = m.requireSpace]
    /\ UNCHANGED <<option, now, ret, track, insertOrder, queueVars, estimatorVars,
                   callbackVars, janitorVars>>

\* set under the lock, lines 330-345, one turn of the memory loop up to p.delete:
\* an error of Peek and the key "" return; a key getItem does not find goes round
\* again with nothing changed; a key it finds is taken off requireSpace
LockedPeek(g) ==
    /\ Alive
    /\ goroutines[g].pc = "loop"
    /\ LET pk == Peek(array)
       IN  goroutines' = [goroutines EXCEPT ![g] =
               IF pk.err # NilErr \/ pk.res = ""
               THEN [goroutines[g] EXCEPT !.pc = "unlock", !.requireSpace = 0]
               ELSE IF ~getItem(items, pk.res, now).found
               THEN goroutines[g]
               ELSE [goroutines[g] EXCEPT !.pc = "free", !.key = pk.res,
                                          !.requireSpace = @ - items[pk.res].Mem]]
    /\ UNCHANGED <<items, memUsage, array, option, now, ret, track, insertOrder, queueVars,
                   estimatorVars, callbackVars, janitorVars>>

\* set under the lock, line 346: p.delete of the key the loop found, and round
\* again while requireSpace > 0
LockedFree(g) ==
    /\ Alive
    /\ goroutines[g].pc = "free"
    /\ LET s == delete(Cur, goroutines[g].key)
       IN  /\ items' = s.items
           /\ memUsage' = s.memUsage
           /\ array' = s.array
    /\ goroutines' = [goroutines EXCEPT ![g] =
           IF goroutines[g].requireSpace > 0
           THEN [goroutines[g] EXCEPT !.pc = "loop", !.key = ""]
           ELSE [goroutines[g] EXCEPT !.pc = "store", !.key = "", !.requireSpace = 0]]
    /\ UNCHANGED <<option, now, ret, track, insertOrder, queueVars, estimatorVars,
                   callbackVars, janitorVars>>

\* Set, Add, Replace under the lock: the write of the entry
LockedStore(g) ==
    /\ Alive
    /\ goroutines[g].pc = "store"
    /\ LET c == goroutines[g].call
           s == setStore(Cur, c.op, c.key, IntVal(1), c.d, goroutines[g].t)
       IN  /\ items' = s.items
           /\ memUsage' = s.memUsage
           /\ array' = s.array
    /\ goroutines' = [goroutines EXCEPT ![g].pc = "unlock", ![g].t = 0]
    /\ UNCHANGED <<option, now, ret, track, insertOrder, queueVars, estimatorVars, callbackVars,
                   janitorVars>>

\* Delete under the lock: the entry is deleted and the callback, when one is
\* registered and the key was found, is called before the deferred Unlock
LockedDelete(g) ==
    /\ Alive
    /\ goroutines[g].pc = "locked"
    /\ goroutines[g].call.op = "Delete"
    /\ LET s == delete(Cur, goroutines[g].call.key)
       IN  /\ items' = s.items
           /\ memUsage' = s.memUsage
           /\ array' = s.array
    /\ Goto(g, "unlock")
    /\ UNCHANGED <<option, now, ret, track, insertOrder, queueVars, estimatorVars, callbackVars,
                   janitorVars>>

\* DeleteExpired under the lock, line 114: the range reads p.items once; the keys
\* it will delete are those expired at the time the call read, in the order the
\* map yields them
LockedRange(g) ==
    /\ Alive
    /\ goroutines[g].pc = "locked"
    /\ goroutines[g].call.op = "DeleteExpired"
    /\ \E todo \in Orders(SetToSeq({k \in DOMAIN items :
                                       /\ items[k].Expiration > 0
                                       /\ goroutines[g].t > items[k].Expiration})) :
           goroutines' = [goroutines EXCEPT ![g].pc = IF todo = <<>> THEN "unlock" ELSE "sweep",
                                            ![g].todo = todo, ![g].t = 0,
                                            ![g].registered = onEvicted]
    /\ UNCHANGED <<items, memUsage, array, option, now, ret, track, insertOrder, queueVars,
                   estimatorVars, callbackVars, janitorVars>>

\* DeleteExpired under the lock, lines 117-120: p.delete of the next key, in the
\* map p.items is now; the entry is collected when a callback is registered
LockedSweep(g) ==
    /\ Alive
    /\ goroutines[g].pc = "sweep"
    /\ LET k == Head(goroutines[g].todo)
           s == delete(Cur, k)
           evicted == k \in DOMAIN items /\ onEvicted # NilFunc
       IN  /\ items' = s.items
           /\ memUsage' = s.memUsage
           /\ array' = s.array
           /\ goroutines' = [goroutines EXCEPT
                  ![g].pc = IF Len(goroutines[g].todo) > 1 THEN "sweep" ELSE "unlock",
                  ![g].todo = Tail(@),
                  ![g].pending = IF evicted THEN Append(@, <<k, items[k].Object>>) ELSE @]
    /\ UNCHANGED <<option, now, ret, track, insertOrder, queueVars, estimatorVars,
                   callbackVars, janitorVars>>

\* OnEvicted under the lock: p.onEvicted = f
LockedRegister(g) ==
    /\ Alive
    /\ goroutines[g].pc = "locked"
    /\ goroutines[g].call.op = "OnEvicted"
    /\ onEvicted' = goroutines[g].call.f
    /\ Goto(g, "unlock")
    /\ UNCHANGED <<items, memUsage, array, option, now, ret, track, insertOrder, mu, frames,
                   called, gone, queueVars, estimatorVars, janitorVars>>

\* p.mu.Unlock(): a DeleteExpired with evictedItems goes on to report them, every
\* other call returns
Unlock(g) ==
    /\ Alive
    /\ goroutines[g].pc = "unlock"
    /\ mu' = "unlocked"
    /\ goroutines' = [goroutines EXCEPT ![g] = IF goroutines[g].pending # <<>>
                                               THEN [goroutines[g] EXCEPT !.pc = "report"]
                                               ELSE Idle]
    /\ UNCHANGED <<items, memUsage, array, option, now, ret, track, insertOrder, onEvicted,
                   frames, called, gone, queueVars, estimatorVars, janitorVars>>

\* DeleteExpired after Unlock: p.onEvicted(v.key, v.value) for the next of its
\* evictedItems, with the callback the field holds now; a nil one panics
Report(g) ==
    /\ Alive
    /\ goroutines[g].pc = "report"
    /\ goroutines' = [goroutines EXCEPT ![g] =
                         IF onEvicted = NilFunc THEN [goroutines[g] EXCEPT !.pc = "panic"]
                         ELSE IF Len(goroutines[g].pending) > 1
                         THEN [goroutines[g] EXCEPT !.pending = Tail(@)]
                         ELSE Idle]
    /\ UNCHANGED <<items, memUsage, array, option, now, ret, track, insertOrder, queueVars,
                   estimatorVars, callbackVars, janitorVars>>

\* Get, GetWithExpiration under the read lock
LockedRead(g) ==
    /\ Alive
    /\ goroutines[g].pc = "rlocked"
    /\ Goto(g, "runlock")
    /\ UNCHANGED <<items, memUsage, array, option, now, ret, track, insertOrder, queueVars,
                   estimatorVars, callbackVars, janitorVars>>

\* p.mu.RUnlock()
RUnlock(g) ==
    /\ Alive
    /\ goroutines[g].pc = "runlock"
    /\ mu' = IF \E h \in Goroutines \ {g} : goroutines[h].pc \in {"rlocked", "runlock"}
             THEN "rlocked" ELSE "unlocked"
    /\ goroutines' = [goroutines EXCEPT ![g] = Idle]
    /\ UNCHANGED <<items, memUsage, array, option, now, ret, track, insertOrder, onEvicted,
                   frames, called, gone, queueVars, estimatorVars, janitorVars>>

\* Flush: p.items = make(map[string]*Item), with no lock taken
UnlockedFlush(g) ==
    /\ Alive
    /\ goroutines[g].pc = "call"
    /\ goroutines[g].call.op = "Flush"
    /\ items' = flush(Cur).items
    /\ memUsage' = flush(Cur).memUsage
    /\ array' = flush(Cur).array
    /\ goroutines' = [goroutines EXCEPT ![g] = Idle]
    /\ UNCHANGED <<option, now, ret, track, insertOrder, queueVars, estimatorVars, callbackVars,
                   janitorVars>>

\* Size and Alloc: len(p.items) and p.memUsage, read with no lock taken
UnlockedRead(g) ==
    /\ Alive
    /\ goroutines[g].pc = "call"
    /\ goroutines[g].call.op \in {"Size", "Alloc"}
    /\ goroutines' = [goroutines EXCEPT ![g] = Idle]
    /\ UNCHANGED <<items, memUsage, array, option, now, ret, track, insertOrder, queueVars,
                   estimatorVars, callbackVars, janitorVars>>

NextConcurrent ==
    \/ \E g \in Goroutines, c \in Calls : Call(g, c)
    \/ \E g \in Goroutines : Lock(g)
    \/ \E g \in Goroutines : RLock(g)
    \/ \E g \in Goroutines : LockedLookup(g)
    \/ \E g \in Goroutines : LockedCapacity(g)
    \/ \E g \in Goroutines : LockedEvict(g)
    \/ \E g \in Goroutines : LockedPeek(g)
    \/ \E g \in Goroutines : LockedFree(g)
    \/ \E g \in Goroutines : LockedStore(g)
    \/ \E g \in Goroutines : LockedDelete(g)
    \/ \E g \in Goroutines : LockedRange(g)
    \/ \E g \in Goroutines : LockedSweep(g)
    \/ \E g \in Goroutines : LockedRegister(g)
    \/ \E g \in Goroutines : Unlock(g)
    \/ \E g \in Goroutines : Report(g)
    \/ \E g \in Goroutines : LockedRead(g)
    \/ \E g \in Goroutines : RUnlock(g)
    \/ \E g \in Goroutines : UnlockedFlush(g)
    \/ \E g \in Goroutines : UnlockedRead(g)
    \/ Alive /\ Tick

\* New with room for one entry, under the memory limit or under the capacity,
\* every goroutine idle
InitConcurrent ==
    /\ option \in Options
    /\ items = <<>>
    /\ memUsage = 0
    /\ array = <<>>
    /\ now = 1
    /\ ret = Ret("New", "", NilErr, FALSE)
    /\ insertOrder = NoHistory
    /\ track = FALSE
    /\ qsize = queueSize
    /\ keyManager = "queue"
    /\ NoEstimator
    /\ NoCallback
    /\ NoJanitor
    /\ goroutines = [g \in Goroutines |-> Idle]

SpecConcurrent == InitConcurrent /\ [][NextConcurrent]_vars

\* goroutine h is inside a critical section it entered with Lock
Exclusive(h) ==
    goroutines[h].pc \in {"locked", "capacity", "evict", "loop", "free", "store", "sweep", "unlock"}

\* goroutine h is inside a critical section it entered with RLock
Shared(h) == goroutines[h].pc \in {"rlocked", "runlock"}

\* this step is goroutine g reading or writing the entry map, the memory counter
\* or the policy
Touches(g) ==
    /\ goroutines'[g] # goroutines[g]
    /\ \/ goroutines[g].pc \in {"capacity", "evict", "loop", "free", "store", "sweep", "rlocked"}
       \/ goroutines[g].pc = "locked" /\ goroutines[g].call.op # "OnEvicted"
       \/ goroutines[g].pc = "call" /\ LockMode(goroutines[g].call.op) = "none"

\* C21: every operation touches the entry map, the memory counter and the policy
\* only while it holds the lock, exclusive for Set, Add, Replace, Delete,
\* DeleteExpired and Flush and at least shared for Get, GetWithExpiration, Size
\* and Alloc, so that no operation reads or writes them while another operation
\* is inside its exclusive critical section.
C21_TouchesOnlyUnderLock ==
    [][\A g \in Goroutines :
           Touches(g) =>
               /\ IF goroutines[g].call.op \in {"Get", "GetWithExpiration", "Size", "Alloc"}
                  THEN Shared(g) \/ Exclusive(g)
                  ELSE Exclusive(g)
               /\ \A h \in Goroutines \ {g} : ~Exclusive(h)]_vars

\* C24: whatever a concurrent OnEvicted does, DeleteExpired never calls a nil
\* callback, and the callback it calls for an entry is the one that was
\* registered when the entry was removed under the lock.
C24_SweepReportsToRegistered ==
    [][\A g \in Goroutines :
           (goroutines[g].pc = "report" /\ goroutines'[g] # goroutines[g]) =>
               /\ goroutines'[g].pc # "panic"
               /\ onEvicted # NilFunc
               /\ onEvicted = goroutines[g].registered]_vars

====
